---- MODULE Spec2Model ----
(***************************************************************************)
(* Billing transaction engine of billing-inventory-app.                    *)
(*                                                                         *)
(* The model covers modules/billing.py (cart, totals, tax split, invoice   *)
(* numbering, create_bill), database/db_manager.py (customer upsert, the   *)
(* create_bill transaction and its rollback by get_connection) and         *)
(* utils/company_settings.py (the invoice counter kept in memory and in    *)
(* the invoice_note column).                                               *)
(*                                                                         *)
(* Text values are sequences of one-character strings, so that strip() and *)
(* the [:2] slice are computed and not assumed.  Money is counted in paise *)
(* (1/100 of the currency unit); the unrounded total_tax, a float in the   *)
(* code, is counted in 1/1000 paise so that taxable * 0.05 and its half    *)
(* are exact.                                                              *)
(***************************************************************************)
EXTENDS Integers, Sequences, FiniteSets, TLC

VARIABLES
    cart,           \* BillingManager.cart_items, one per running application
    next_inv,       \* company_settings._settings['next_invoice_number'], per application
    invoice_note,   \* company_settings.invoice_note column: the counter markers it holds
    customers,      \* table customers
    bills,          \* table bills
    bill_items,     \* table bill_items
    stock,          \* products.current_stock
    stock_history,  \* table stock_history
    txn,            \* the uncommitted writes of the connection holding the write lock
    pc,             \* where each application is inside BillingManager.create_bill
    call,           \* the create_bill call in progress: arguments, bill_data, cart
                    \* lines written (idx), values before the call
    ret,            \* the outcome of each application's last create_bill call and,
                    \* when the billing page made it, what the page did next
    result,         \* what the last direct call of calculate_totals or
                    \* _split_tax_by_state was given and returned
    now,            \* datetime.now(): the year and month of the system clock
    stock_call      \* the InventoryManager.update_stock call in progress: what it
                    \* read and what it is about to write

vars == <<cart, next_inv, invoice_note, customers, bills, bill_items, stock,
          stock_history, txn, pc, call, ret, result, now, stock_call>>

store == <<bills, bill_items, stock, stock_history>>

----------------------------------------------------------------------------
(* Bounds of the model *)

\* create_bill is not started once the in-memory counter has passed MaxInv
MaxInv == 2
\* nor once MaxBills invoices are stored (MaxBillsConc where two applications
\* run, MaxBillsSale in the plain sales, MaxBillsSeq where one application
\* numbers invoices), nor when it would store more customers than that
MaxBills == 1
MaxBillsConc == 2
MaxBillsSale == 2
MaxBillsSeq == 3
MaxStock == 2
MaxMoves == 1
MaxRestock == 5
MaxRestocks == 2
\* the retry bound of generate_invoice_number, range(1000) in the code,
\* scaled down so that the fallback branch is reached
RetryLimit == 2

Procs == {1, 2}
Products == {1, 2}

\* products.current_stock in the initial state
InitialStock == [prod \in Products |-> IF prod = 1 THEN 2 ELSE 1]

\* the quantities add_item_to_cart is called with
Quantities == 0..2

\* the product and quantity added where two applications run
ProductsConc == {2}
QuantitiesConc == {1}

\* products.selling_price in paise: product 1 is the spec's "Tonic"
\* (list price 300.00, 55% discount, rate 135.00), product 2 sells at 1.00
selling_price(prod) == IF prod = 1 THEN 13500 ELSE 100

----------------------------------------------------------------------------
(* Text *)

Blank == " "
Empty == << >>

RECURSIVE LStrip(_)
LStrip(s) == IF s # Empty /\ Head(s) = Blank THEN LStrip(Tail(s)) ELSE s

RECURSIVE RStrip(_)
RStrip(s) ==
    IF s # Empty /\ s[Len(s)] = Blank THEN RStrip(SubSeq(s, 1, Len(s) - 1)) ELSE s

\* str.strip()
Strip(s) == RStrip(LStrip(s))

\* Python truth value of a str
Truthy(s) == s # Empty

Req(name, phone, gstin, sales_person_id, is_gst_bill) ==
    [customer_name |-> name, customer_phone |-> phone, customer_gstin |-> gstin,
     sales_person_id |-> sales_person_id, is_gst_bill |-> is_gst_bill]

\* the arguments of BillingManager.create_bill tried by the model
Args == {
    Req(<<"A">>, <<"9">>, Empty, 1, FALSE),                 \* untaxed, buyer with a phone
    Req(<<"A">>, <<"9">>, <<"1", "9", "X">>, 1, TRUE),      \* taxed, buyer in the seller's state
    Req(<<"A">>, Empty, <<"2", "7", "X">>, 1, TRUE),        \* taxed, buyer in another state
    Req(<<"A">>, Empty, <<" ", " ">>, 1, TRUE),             \* taxed, tax id of spaces only
    Req(Empty, <<"9">>, Empty, 1, FALSE),                   \* no buyer name
    Req(<<" ">>, <<"9">>, Empty, 1, FALSE),                 \* buyer name of a space only
    Req(<<"A">>, <<"9">>, Empty, 0, FALSE),                 \* no sales person
    Req(<<"A">>, <<"9">>, Empty, 1, TRUE) }                 \* taxed, no tax id

\* two plain calls that name the buyer of one phone differently
ArgsTwoNames == { Req(<<"A">>, <<"9">>, Empty, 1, FALSE),
                  Req(<<"B">>, <<"9">>, Empty, 1, FALSE) }

\* a plain call: untaxed, buyer with a phone
ArgsPlain == { Req(<<"A">>, <<"9">>, Empty, 1, FALSE) }

\* company_settings.get('state_code'), the default of _get_defaults
state_code == <<"1", "9">>
invoice_prefix == <<"N", "H">>

\* f"{n}" of a natural number: its decimal digits
Digit(d) == <<"0", "1", "2", "3", "4", "5", "6", "7", "8", "9">>[d + 1]

RECURSIVE Str(_)
Str(n) == IF n < 10 THEN <<Digit(n)>> ELSE Str(n \div 10) \o <<Digit(n % 10)>>

\* the fiscal year, April to March, that a date falls in
fy_start(date) == IF date.month >= 4 THEN date.year ELSE date.year - 1
fy_end(date) == IF date.month >= 4 THEN date.year + 1 ELSE date.year

\* the fiscal-year label computed from datetime.now()
FyStr(date) == Str(fy_start(date) % 100) \o <<"-">> \o Str(fy_end(date) % 100)
fy_str == FyStr(now)

\* the dates the clock shows: in fiscal year 2025-26, its last month, and the
\* first month of fiscal year 2026-27
Date(year, month) == [year |-> year, month |-> month]
Dates == { Date(2025, 4), Date(2026, 3), Date(2026, 4) }
FirstDate == Date(2025, 4)

----------------------------------------------------------------------------
(* Cart: BillingManager.add_item_to_cart, remove_item_from_cart, clear_cart *)

\* the product dict handed to add_item_to_cart, as read from table products
ProductRow(prod) ==
    [id |-> prod, current_stock |-> stock[prod], selling_price |-> selling_price(prod)]

\* index of the cart line of a product, 0 when the product is not in the cart
LineOf(items, product_id) ==
    IF \E i \in 1..Len(items) : items[i].product_id = product_id
    THEN CHOOSE i \in 1..Len(items) : items[i].product_id = product_id
    ELSE 0

\* an add that merges into the line of the product without looking at the stock
add_item_to_cart_merge_any(items, product, quantity) ==
    IF quantity <= 0 THEN items
    ELSE IF quantity > product.current_stock THEN items
    ELSE LET i == IF \E j \in 1..Len(items) : items[j].product_id = product.id
                  THEN CHOOSE j \in 1..Len(items) : items[j].product_id = product.id
                  ELSE 0
         IN IF i # 0
            THEN [items EXCEPT ![i].quantity = items[i].quantity + quantity,
                               ![i].amount = items[i].rate * (items[i].quantity + quantity)]
            ELSE Append(items, [product_id |-> product.id,
                                quantity |-> quantity,
                                rate |-> product.selling_price,
                                amount |-> product.selling_price * quantity])

\* the cart after add_item_to_cart(product, quantity); the cart itself when
\* the call returns False
add_item_to_cart(items, product, quantity) ==
    IF quantity <= 0 THEN items
    ELSE IF quantity > product.current_stock THEN items
    ELSE LET i == LineOf(items, product.id) IN
         IF i # 0
         THEN LET new_quantity == items[i].quantity + quantity IN
              IF new_quantity > product.current_stock THEN items
              ELSE [items EXCEPT ![i].quantity = new_quantity,
                                 ![i].amount = items[i].rate * new_quantity]
         ELSE Append(items, [product_id |-> product.id,
                             quantity |-> quantity,
                             rate |-> product.selling_price,
                             amount |-> product.selling_price * quantity])

remove_item_from_cart(items, index) ==
    IF 0 <= index /\ index < Len(items)
    THEN SubSeq(items, 1, index) \o SubSeq(items, index + 2, Len(items))
    ELSE items

----------------------------------------------------------------------------
(* Totals and tax split: calculate_totals, _split_tax_by_state *)

\* 0.05 of a paisa amount, in 1/1000 paise
GstRateMilli == 50
Milli == 1000

\* a sum that stops after the first line
SumAmountHead(items) == IF items = << >> THEN 0 ELSE Head(items).amount

\* sum(item['amount'] for item in self.cart_items)
RECURSIVE SumAmount(_)
SumAmount(items) ==
    IF items = << >> THEN 0 ELSE Head(items).amount + SumAmount(Tail(items))

\* paise in one unit of currency
PaisePerUnit == 100

\* round(x) of an amount x given in 1/1000 paise, in whole units of currency:
\* Python rounds an exact half to the even neighbour.  (subtotal + total_tax
\* is a multiple of 0.0005, so the float's error never moves a value that is
\* not an exact half across one, and an exact half is a float.)
RoundHalfEven(x) ==
    LET unit == PaisePerUnit * Milli
        q == x \div unit
        r == x % unit
    IN IF 2 * r > unit THEN q + 1
       ELSE IF 2 * r < unit THEN q
       ELSE IF q % 2 = 0 THEN q ELSE q + 1

\* a round_off with the operands exchanged
round_off_swapped(grand_total, grand_total_before_round) ==
    grand_total_before_round - grand_total * PaisePerUnit * Milli

\* round_off = grand_total - grand_total_before_round, in 1/1000 paise
round_off(grand_total, grand_total_before_round) ==
    grand_total * PaisePerUnit * Milli - grand_total_before_round

\* subtotal and taxable_amount in paise, total_tax and round_off in 1/1000
\* paise, grand_total in whole units of currency
calculate_totals(items, is_gst_bill) ==
    IF items = << >>
    THEN [subtotal |-> 0, taxable_amount |-> 0, total_tax |-> 0,
          cgst_amount |-> 0, sgst_amount |-> 0, igst_amount |-> 0,
          round_off |-> 0, grand_total |-> 0]
    ELSE LET subtotal == SumAmount(items)
             taxable_amount == subtotal
             total_tax == IF is_gst_bill THEN taxable_amount * GstRateMilli ELSE 0
             grand_total_before_round == subtotal * Milli + total_tax
             grand_total == RoundHalfEven(grand_total_before_round)
         IN [subtotal |-> subtotal, taxable_amount |-> taxable_amount,
             total_tax |-> total_tax,
             cgst_amount |-> 0, sgst_amount |-> 0, igst_amount |-> 0,
             round_off |-> round_off(grand_total, grand_total_before_round),
             grand_total |-> grand_total]

\* round(x, 2) of an amount x given in 1/1000 paise, in paise.  On a value that
\* lies exactly between two paise the float's representation error decides the
\* direction; tie_up is that direction.
Round2(x, tie_up) ==
    IF x % Milli = Milli \div 2
    THEN (x \div Milli) + (IF tie_up THEN 1 ELSE 0)
    ELSE (x + Milli \div 2) \div Milli

\* percent in 1
Percent == 100

\* GSTCalculator.calculate_selling_price(mrp, discount_percent): mrp and the
\* result in paise, the discount in whole percent
calculate_selling_price(mrp, discount_percent, tie_up) ==
    LET discount == IF discount_percent < 0 \/ discount_percent > Percent
                    THEN 0 ELSE discount_percent
        price == mrp * (Percent - discount) * (Milli \div Percent)
    IN Round2(price, tie_up)

\* a split that takes customer_gstin[:2] whatever the length of the GSTIN
split_tax_any_length(setting, totals, customer_gstin, tie_up) ==
    LET total_tax == totals.total_tax
        zeroed == [totals EXCEPT !.cgst_amount = 0, !.sgst_amount = 0,
                                 !.igst_amount = 0]
    IN IF total_tax <= 0 \/ ~Truthy(customer_gstin) THEN zeroed
       ELSE LET company_state_code == Strip(setting)
                customer_state_code ==
                    IF Len(customer_gstin) >= 2 THEN SubSeq(customer_gstin, 1, 2)
                    ELSE customer_gstin
            IN IF Truthy(company_state_code)
                  /\ customer_state_code = company_state_code
               THEN [zeroed EXCEPT !.cgst_amount = Round2(total_tax \div 2, tie_up),
                                   !.sgst_amount = Round2(total_tax \div 2, tie_up)]
               ELSE [zeroed EXCEPT !.igst_amount = Round2(total_tax, tie_up)]

\* _split_tax_by_state where company_settings.get('state_code', '') is setting
split_tax(setting, totals, customer_gstin, tie_up) ==
    LET total_tax == totals.total_tax
        zeroed == [totals EXCEPT !.cgst_amount = 0, !.sgst_amount = 0,
                                 !.igst_amount = 0]
    IN IF total_tax <= 0 \/ ~Truthy(customer_gstin) THEN zeroed
       ELSE LET company_state_code == Strip(setting)
                customer_state_code ==
                    IF Len(customer_gstin) >= 2 THEN SubSeq(customer_gstin, 1, 2)
                    ELSE Empty
            IN IF Truthy(company_state_code)
                  /\ customer_state_code = company_state_code
               THEN [zeroed EXCEPT !.cgst_amount = Round2(total_tax \div 2, tie_up),
                                   !.sgst_amount = Round2(total_tax \div 2, tie_up)]
               ELSE [zeroed EXCEPT !.igst_amount = Round2(total_tax, tie_up)]

\* the split under the settings create_bill runs with
_split_tax_by_state(totals, customer_gstin, tie_up) ==
    split_tax(state_code, totals, customer_gstin, tie_up)

----------------------------------------------------------------------------
(* Invoice numbers: BillingManager.generate_invoice_number *)

\* f"{prefix}/{running}/{fy_str}"
InvoiceNumber(running) == <<invoice_prefix, running, fy_str>>

\* a lookup that finds nothing, whatever is stored
BillExistsNever(candidate) == FALSE

\* db.get_bill_by_invoice_number(candidate) is not None
BillExists(candidate) == \E i \in 1..Len(bills) : bills[i].invoice_number = candidate

\* the value of running when the for loop is left: by break on the first free
\* candidate, or by exhaustion after `tries` occupied candidates
RECURSIVE FindRunning(_, _)
FindRunning(running, tries) ==
    IF tries = 0 THEN running
    ELSE IF ~BillExists(InvoiceNumber(running)) THEN running
    ELSE FindRunning(running + 1, tries - 1)

\* the running number generate_invoice_number builds the invoice number from
generate_running(p) == FindRunning(next_inv[p], RetryLimit)

\* a counter that moves on by two
NextAfterSkip(running) == running + 2

\* the value generate_invoice_number hands to set_next_invoice_number
NextAfter(running) == running + 1

----------------------------------------------------------------------------
(* Customers: DatabaseManager.add_or_update_customer *)

\* get_customer_by_phone: the id (row index) of the first customer with that
\* phone, 0 for None
get_customer_by_phone(phone) ==
    IF \E i \in 1..Len(customers) : customers[i].phone = phone
    THEN CHOOSE i \in 1..Len(customers) :
            /\ customers[i].phone = phone
            /\ \A j \in 1..(i - 1) : customers[j].phone # phone
    ELSE 0

\* the customers table and the customer id after a successful call
add_or_update_customer(customer_data) ==
    LET phone == Strip(customer_data.phone)
        existing_customer == IF Truthy(phone) THEN get_customer_by_phone(phone) ELSE 0
    IN IF existing_customer # 0
       THEN [rows |-> [customers EXCEPT
                          ![existing_customer].name = customer_data.name,
                          ![existing_customer].gstin = customer_data.gstin],
             id |-> existing_customer]
       ELSE [rows |-> Append(customers, [name |-> customer_data.name,
                                         phone |-> customer_data.phone,
                                         gstin |-> customer_data.gstin]),
             id |-> Len(customers) + 1]

----------------------------------------------------------------------------
(* The write transaction of a connection: DatabaseManager.get_connection *)

NoTxn == [owner |-> 0, bills |-> << >>, bill_items |-> << >>,
          stock |-> [prod \in Products |-> 0], stock_history |-> << >>]

\* no other connection holds the write lock
LockFree == txn.owner = 0

\* a connection that starts from empty tables
BeginFresh(p) == [owner |-> p, bills |-> << >>, bill_items |-> << >>,
                  stock |-> stock, stock_history |-> << >>]

\* the first write of a connection takes the lock and starts from the committed rows
Begin(p) == [owner |-> p, bills |-> bills, bill_items |-> bill_items,
             stock |-> stock, stock_history |-> stock_history]

\* conn.commit(): the connection's writes become the committed rows
Commit(p) ==
    /\ bills' = txn.bills
    /\ bill_items' = txn.bill_items
    /\ stock' = txn.stock
    /\ stock_history' = txn.stock_history
    /\ txn' = NoTxn

\* an exception path that commits what the connection wrote so far
RollbackKeepsWrites(p) ==
    /\ bills' = IF txn.owner = p THEN txn.bills ELSE bills
    /\ bill_items' = IF txn.owner = p THEN txn.bill_items ELSE bill_items
    /\ stock' = IF txn.owner = p THEN txn.stock ELSE stock
    /\ stock_history' = IF txn.owner = p THEN txn.stock_history ELSE stock_history
    /\ txn' = IF txn.owner = p THEN NoTxn ELSE txn

\* except Exception: conn.rollback(); raise -- the connection's writes are dropped
Rollback(p) ==
    /\ txn' = IF txn.owner = p THEN NoTxn ELSE txn
    /\ UNCHANGED store

\* a bills table without the constraint
UniqueViolationOff(invoice_number) == FALSE

\* UNIQUE(invoice_number) of table bills (schema.sql): the INSERT raises
\* IntegrityError when a committed row carries the number
UniqueViolation(invoice_number) ==
    \E i \in 1..Len(bills) : bills[i].invoice_number = invoice_number

----------------------------------------------------------------------------
(* The invoice counter: CompanySettings.update, set_next_invoice_number *)

\* the counter markers of an invoice_note: <!--NEXT_INV=n-->, [NEXT_INV=n] and
\* <next_inv_hidden>n</next_inv_hidden>; 0 stands for "no such marker"
NoMarkers == [comment |-> 0, bracket |-> 0, hidden |-> 0]

\* the note update() writes: old markers stripped, the fresh hidden marker appended
EncodeNote(note, ninv) == [note EXCEPT !.bracket = 0, !.hidden = ninv]

\* the counter load_settings finds in a note: the <!--NEXT_INV=n--> marker,
\* else the [NEXT_INV=n] marker, else the default 1; the property
\* next_invoice_number turns a 0 into 1
DecodeNote(note) ==
    IF note.comment # 0 THEN note.comment
    ELSE IF note.bracket # 0 THEN note.bracket
    ELSE 1

----------------------------------------------------------------------------
(* BillingManager.create_bill *)

NoArgs == [customer_name |-> Empty, customer_phone |-> Empty,
           customer_gstin |-> Empty, sales_person_id |-> 0, is_gst_bill |-> FALSE]

NoBill == [invoice_number |-> <<Empty, 0, Empty>>,
           customer_name |-> Empty, customer_phone |-> Empty,
           customer_gstin |-> Empty, sales_person_id |-> 0, is_gst_bill |-> FALSE,
           subtotal |-> 0, taxable_amount |-> 0, cgst_amount |-> 0,
           sgst_amount |-> 0, igst_amount |-> 0, total_tax |-> 0]

NoCall == [args |-> NoArgs, bill |-> NoBill, idx |-> 0, pre_next |-> 0,
           pre_note |-> NoMarkers, pre_customers |-> << >>, pre_store |-> << >>]

\* what the last create_bill call of an application returned: msg "created",
\* "rejected" (a failed check), "unique" or "db_error" (an exception of
\* db.create_bill); written counts the cart lines written before the
\* exception; running and counter give the number of the invoice created and
\* the counter value the call started from.  After "created" the billing page
\* goes on to "previewed" (PDF written, preview closed) or "pdf_error"
NoRet == [msg |-> "none", written |-> 0, running |-> 0, counter |-> 0]

\* the checks made before the try block; "ok" when all pass
Validate(items, args) ==
    IF items = << >> THEN "Cart is empty"
    ELSE IF ~Truthy(args.customer_name) THEN "Customer name is required"
    ELSE IF args.sales_person_id = 0 THEN "Sales person is required"
    ELSE IF args.is_gst_bill /\ ~Truthy(args.customer_gstin)
         THEN "Customer GSTIN is required for GST bills"
    ELSE "ok"

\* totals as create_bill stores them
BillTotals(items, args, tie_up) ==
    LET totals == calculate_totals(items, args.is_gst_bill)
        customer_gstin == Strip(args.customer_gstin)
    IN IF args.is_gst_bill
       THEN _split_tax_by_state(totals, customer_gstin, tie_up)
       ELSE [totals EXCEPT !.cgst_amount = 0, !.sgst_amount = 0, !.igst_amount = 0]

\* the columns of bill_data the model keeps (customer_id, address, round-off
\* and grand total are left out)
bill_data(args, invoice_number, totals) ==
    [invoice_number |-> invoice_number,
     customer_name |-> args.customer_name,
     customer_phone |-> args.customer_phone,
     customer_gstin |-> Strip(args.customer_gstin),
     sales_person_id |-> args.sales_person_id,
     is_gst_bill |-> args.is_gst_bill,
     subtotal |-> totals.subtotal,
     taxable_amount |-> totals.taxable_amount,
     cgst_amount |-> totals.cgst_amount,
     sgst_amount |-> totals.sgst_amount,
     igst_amount |-> totals.igst_amount,
     total_tax |-> totals.total_tax]

\* a call that fails one of the checks returns (False, message, None)
CreateBillRejected(p, args) ==
    /\ pc[p] = "idle"
    /\ Validate(cart[p], args) # "ok"
    /\ ret' = [ret EXCEPT ![p] = [NoRet EXCEPT !.msg = "rejected"]]
    /\ UNCHANGED <<stock_call, now, result, cart, next_inv, invoice_note, customers, bills, bill_items, stock,
                   stock_history, txn, pc, call>>

\* lines 234-290: customer upsert, invoice number, counter update, totals, bill_data.
\* cust_ok and set_ok tell whether the write of add_or_update_customer and of
\* update_company_settings went through; each is its own committed transaction.
CreateBillPrepare(p, args, max_bills) ==
    /\ pc[p] = "idle"
    /\ next_inv[p] <= MaxInv
    /\ Len(bills) < max_bills
    /\ Validate(cart[p], args) = "ok"
    /\ \E cust_ok, set_ok \in BOOLEAN,
          tie_up \in (IF args.is_gst_bill THEN BOOLEAN ELSE {FALSE}) :
         /\ (cust_ok \/ set_ok) => LockFree
         /\ LET saved == add_or_update_customer([name |-> args.customer_name,
                                                 phone |-> args.customer_phone,
                                                 gstin |-> args.customer_gstin])
                running == generate_running(p)
                totals == BillTotals(cart[p], args, tie_up)
            IN /\ Len(saved.rows) <= max_bills
               /\ customers' = IF cust_ok THEN saved.rows ELSE customers
               /\ next_inv' = IF set_ok
                              THEN [next_inv EXCEPT ![p] = NextAfter(running)]
                              ELSE next_inv
               /\ invoice_note' = IF set_ok
                                  THEN EncodeNote(invoice_note, NextAfter(running))
                                  ELSE invoice_note
               /\ call' = [call EXCEPT ![p] =
                             [args |-> args,
                              bill |-> bill_data(args, InvoiceNumber(running), totals),
                              idx |-> 0,
                              pre_next |-> next_inv[p],
                              pre_note |-> invoice_note,
                              pre_customers |-> customers,
                              pre_store |-> << >>]]
    /\ pc' = [pc EXCEPT ![p] = "bill"]
    /\ UNCHANGED <<stock_call, now, result, cart, bills, bill_items, stock, stock_history, txn, ret>>

----------------------------------------------------------------------------
(* DatabaseManager.create_bill, one step per SQL statement *)

\* except Exception in db.create_bill and the else branch of create_bill:
\* the transaction is rolled back and the call returns (False, message, None)
Raise(p, msg) ==
    /\ Rollback(p)
    /\ ret' = [ret EXCEPT ![p] = [NoRet EXCEPT !.msg = msg, !.written = call[p].idx]]
    /\ pc' = [pc EXCEPT ![p] = "idle"]
    /\ call' = [call EXCEPT ![p] = NoCall]
    /\ UNCHANGED <<stock_call, now, result, cart, next_inv, invoice_note, customers>>

\* INSERT INTO bills
InsertBill(p) ==
    /\ pc[p] = "bill"
    /\ LockFree
    /\ IF UniqueViolation(call[p].bill.invoice_number)
       THEN Raise(p, "unique")
       ELSE /\ txn' = [Begin(p) EXCEPT !.bills = Append(bills, call[p].bill)]
            /\ pc' = [pc EXCEPT ![p] = "item"]
            /\ call' = [call EXCEPT ![p].pre_store = store]
            /\ UNCHANGED <<stock_call, now, result, cart, next_inv, invoice_note, customers, bills, bill_items,
                           stock, stock_history, ret>>

\* a sale row that leaves the bill_id column empty
SaleHistoryRowNoBill(product_id, current_stock, quantity, bill_id) ==
    [product_id |-> product_id, change_type |-> "SALE",
     quantity_before |-> current_stock + quantity,
     quantity_after |-> current_stock,
     quantity_changed |-> 0 - quantity,
     bill_id |-> 0]

\* the stock_history row of a sale, selected from the product row after the UPDATE
SaleHistoryRow(product_id, current_stock, quantity, bill_id) ==
    [product_id |-> product_id, change_type |-> "SALE",
     quantity_before |-> current_stock + quantity,
     quantity_after |-> current_stock,
     quantity_changed |-> 0 - quantity,
     bill_id |-> bill_id]

\* an UPDATE that takes one unit however many were sold
StockAfterSaleOne(current_stock, quantity) == current_stock - 1

\* current_stock after UPDATE products SET current_stock = current_stock - ?
StockAfterSale(current_stock, quantity) == current_stock - quantity

\* INSERT INTO bill_items for the next cart line
InsertItem(p) ==
    /\ pc[p] = "item"
    /\ call[p].idx < Len(cart[p])
    /\ LET item == cart[p][call[p].idx + 1] IN
       txn' = [txn EXCEPT !.bill_items =
                 Append(@, [bill_id |-> Len(txn.bills),
                            product_id |-> item.product_id,
                            quantity |-> item.quantity,
                            rate |-> item.rate,
                            amount |-> item.amount])]
    /\ pc' = [pc EXCEPT ![p] = "stock"]
    /\ UNCHANGED <<stock_call, now, result, cart, next_inv, invoice_note, customers, bills, bill_items, stock,
                   stock_history, call, ret>>

\* UPDATE products SET current_stock = current_stock - quantity
UpdateStock(p) ==
    /\ pc[p] = "stock"
    /\ LET item == cart[p][call[p].idx + 1] IN
       txn' = [txn EXCEPT !.stock[item.product_id] = StockAfterSale(@, item.quantity)]
    /\ pc' = [pc EXCEPT ![p] = "history"]
    /\ UNCHANGED <<stock_call, now, result, cart, next_inv, invoice_note, customers, bills, bill_items, stock,
                   stock_history, call, ret>>

\* INSERT INTO stock_history ... SELECT ... FROM products
InsertHistory(p) ==
    /\ pc[p] = "history"
    /\ LET item == cart[p][call[p].idx + 1] IN
       txn' = [txn EXCEPT !.stock_history =
                 Append(@, SaleHistoryRow(item.product_id, txn.stock[item.product_id],
                                          item.quantity, Len(txn.bills)))]
    /\ pc' = [pc EXCEPT ![p] = "item"]
    /\ call' = [call EXCEPT ![p].idx = @ + 1]
    /\ UNCHANGED <<stock_call, now, result, cart, next_inv, invoice_note, customers, bills, bill_items, stock,
                   stock_history, ret>>

\* a commit that empties the cart on success
CommitBillClearing(p) ==
    /\ pc[p] = "item"
    /\ call[p].idx = Len(cart[p])
    /\ Commit(p)
    /\ ret' = [ret EXCEPT ![p] = [NoRet EXCEPT
                                    !.msg = "created",
                                    !.running = call[p].bill.invoice_number[2],
                                    !.counter = call[p].pre_next]]
    /\ pc' = [pc EXCEPT ![p] = "idle"]
    /\ call' = [call EXCEPT ![p] = NoCall]
    /\ cart' = [cart EXCEPT ![p] = << >>]
    /\ UNCHANGED <<stock_call, now, result, next_inv, invoice_note, customers>>

\* conn.commit() and the success return of both create_bill functions
CommitBill(p) ==
    /\ pc[p] = "item"
    /\ call[p].idx = Len(cart[p])
    /\ Commit(p)
    /\ ret' = [ret EXCEPT ![p] = [NoRet EXCEPT
                                    !.msg = "created",
                                    !.running = call[p].bill.invoice_number[2],
                                    !.counter = call[p].pre_next]]
    /\ pc' = [pc EXCEPT ![p] = "idle"]
    /\ call' = [call EXCEPT ![p] = NoCall]
    /\ UNCHANGED <<stock_call, now, result, cart, next_inv, invoice_note, customers>>

\* sqlite3 raises on the statement about to run (lock timeout, I/O error,
\* constraint violation)
StorageFailure(p) ==
    /\ pc[p] \in {"bill", "item", "stock", "history"}
    /\ Raise(p, "db_error")

----------------------------------------------------------------------------
(* InventoryManager.update_stock: a read of the product row, then the UPDATE
   of its stock and the INSERT of a stock_history row on a connection of
   their own.  The number of such rows is kept to MaxMoves and the stock to
   MaxStock. *)

StockChangeTypes == {"PURCHASE", "REMOVE", "ADJUSTMENT"}
StockQuantities == {1}

actual_change_type(change_type) ==
    IF change_type \in {"ADD", "PURCHASE"} THEN "PURCHASE"
    ELSE IF change_type \in {"REMOVE", "SALE"} THEN "SALE"
    ELSE "ADJUSTMENT"

new_quantity(change_type, old_quantity, quantity) ==
    IF change_type \in {"ADD", "PURCHASE"} THEN old_quantity + quantity
    ELSE IF change_type \in {"REMOVE", "SALE"} THEN old_quantity - quantity
    ELSE quantity

NoStockCall == [product_id |-> 0, change_type |-> "none",
                old_quantity |-> 0, new_quantity |-> 0]

\* the stock_history rows written without a bill_id
Moves == { i \in 1..Len(stock_history) : stock_history[i].bill_id = 0 }

\* the row update_stock inserts: no bill_id is given
MoveRow(c) ==
    [product_id |-> c.product_id, change_type |-> c.change_type,
     quantity_before |-> c.old_quantity,
     quantity_after |-> c.new_quantity,
     quantity_changed |-> c.new_quantity - c.old_quantity,
     bill_id |-> 0]

\* db.get_product_by_id and the choice of the new quantity
UpdateStockRead(p, P, Q) ==
    /\ pc[p] = "idle"
    /\ Cardinality(Moves) < MaxMoves
    /\ \E product_id \in P, quantity \in Q, change_type \in StockChangeTypes :
         LET old_quantity == stock[product_id] IN
         /\ ~(change_type \in {"REMOVE", "SALE"} /\ quantity > old_quantity)
         /\ new_quantity(change_type, old_quantity, quantity) <= MaxStock
         /\ stock_call' = [stock_call EXCEPT ![p] =
                             [product_id |-> product_id,
                              change_type |-> actual_change_type(change_type),
                              old_quantity |-> old_quantity,
                              new_quantity |->
                                  new_quantity(change_type, old_quantity, quantity)]]
    /\ pc' = [pc EXCEPT ![p] = "adjust"]
    /\ UNCHANGED <<now, result, cart, next_inv, invoice_note, customers, bills, bill_items,
                   stock, stock_history, txn, call, ret>>

\* the UPDATE, the INSERT and conn.commit(), or an exception that leaves the
\* tables as they were
UpdateStockWrite(p) ==
    /\ pc[p] = "adjust"
    /\ \/ /\ LockFree
          /\ stock' = [stock EXCEPT ![stock_call[p].product_id] = stock_call[p].new_quantity]
          /\ stock_history' = Append(stock_history, MoveRow(stock_call[p]))
       \/ UNCHANGED <<stock, stock_history>>
    /\ pc' = [pc EXCEPT ![p] = "idle"]
    /\ stock_call' = [stock_call EXCEPT ![p] = NoStockCall]
    /\ UNCHANGED <<now, result, cart, next_inv, invoice_note, customers, bills, bill_items,
                   txn, call, ret>>

----------------------------------------------------------------------------
(* InventoryManager.add_stock and reduce_stock: each reads the product row,
   computes new_stock and hands it to update_stock as the quantity, which
   reads the row again.  The stock is kept to MaxRestock and the number of
   rows to MaxRestocks. *)

RestockQuantities == 1..2

\* new_stock = product['current_stock'] + quantity;
\* return self.update_stock(product_id, new_stock, "PURCHASE", notes)
AddStock(p, P) ==
    /\ pc[p] = "idle"
    /\ Len(stock_history) < MaxRestocks
    /\ \E product_id \in P, quantity \in RestockQuantities :
         LET new_stock == stock[product_id] + quantity IN
         /\ new_quantity("PURCHASE", stock[product_id], new_stock) <= MaxRestock
         /\ stock_call' = [stock_call EXCEPT ![p] =
                             [NoStockCall EXCEPT !.product_id = product_id,
                                                 !.change_type = "PURCHASE",
                                                 !.new_quantity = new_stock]]
         /\ result' = [op |-> "add_stock", product_id |-> product_id,
                       quantity |-> quantity, current_stock |-> stock[product_id],
                       success |-> TRUE]
    /\ pc' = [pc EXCEPT ![p] = "update_stock"]
    /\ UNCHANGED <<now, cart, next_inv, invoice_note, customers, bills, bill_items,
                   stock, stock_history, txn, call, ret>>

\* new_stock = product['current_stock'] - quantity; "Insufficient stock" when
\* it is below 0; return self.update_stock(product_id, new_stock, "ADJUSTMENT", notes)
ReduceStock(p, P) ==
    /\ pc[p] = "idle"
    /\ Len(stock_history) < MaxRestocks
    /\ \E product_id \in P, quantity \in RestockQuantities :
         LET new_stock == stock[product_id] - quantity IN
         /\ result' = [op |-> "reduce_stock", product_id |-> product_id,
                       quantity |-> quantity, current_stock |-> stock[product_id],
                       success |-> new_stock >= 0]
         /\ IF new_stock < 0
            THEN UNCHANGED <<stock_call, pc>>
            ELSE /\ stock_call' = [stock_call EXCEPT ![p] =
                                     [NoStockCall EXCEPT !.product_id = product_id,
                                                         !.change_type = "ADJUSTMENT",
                                                         !.new_quantity = new_stock]]
                 /\ pc' = [pc EXCEPT ![p] = "update_stock"]
    /\ UNCHANGED <<now, cart, next_inv, invoice_note, customers, bills, bill_items,
                   stock, stock_history, txn, call, ret>>

\* update_stock as called by the two: its own read of the product row and the
\* choice of the new quantity from the quantity it was given
UpdateStockCalled(p) ==
    /\ pc[p] = "update_stock"
    /\ LET c == stock_call[p]
           old_quantity == stock[c.product_id]
       IN stock_call' = [stock_call EXCEPT ![p] =
                           [product_id |-> c.product_id,
                            change_type |-> actual_change_type(c.change_type),
                            old_quantity |-> old_quantity,
                            new_quantity |->
                                new_quantity(c.change_type, old_quantity, c.new_quantity)]]
    /\ pc' = [pc EXCEPT ![p] = "adjust"]
    /\ UNCHANGED <<now, result, cart, next_inv, invoice_note, customers, bills, bill_items,
                   stock, stock_history, txn, call, ret>>

----------------------------------------------------------------------------
(* BillingPage.generate_bill after billing_manager.create_bill has returned
   success: the PDF is generated and, when that worked, the preview is shown
   and the cart and form are cleared *)

GenerateBillDone(p) ==
    /\ pc[p] = "idle"
    /\ ret[p].msg = "created"
    /\ \E pdf_success \in BOOLEAN :
         /\ cart' = IF pdf_success THEN [cart EXCEPT ![p] = << >>] ELSE cart
         /\ ret' = [ret EXCEPT ![p].msg = IF pdf_success THEN "previewed" ELSE "pdf_error"]
    /\ UNCHANGED <<stock_call, now, result, next_inv, invoice_note, customers, bills,
                   bill_items, stock, stock_history, txn, pc, call>>

----------------------------------------------------------------------------
(* Cart actions *)

AddItem(p, P, Q) ==
    /\ pc[p] = "idle"
    /\ \E prod \in P, quantity \in Q :
         cart' = [cart EXCEPT ![p] = add_item_to_cart(cart[p], ProductRow(prod), quantity)]
    /\ UNCHANGED <<stock_call, now, result, next_inv, invoice_note, customers, bills, bill_items, stock,
                   stock_history, txn, pc, call, ret>>

RemoveItem(p) ==
    /\ pc[p] = "idle"
    /\ \E index \in 0..Len(cart[p]) :
         cart' = [cart EXCEPT ![p] = remove_item_from_cart(cart[p], index)]
    /\ UNCHANGED <<stock_call, now, result, next_inv, invoice_note, customers, bills, bill_items, stock,
                   stock_history, txn, pc, call, ret>>

ClearCart(p) ==
    /\ pc[p] = "idle"
    /\ cart' = [cart EXCEPT ![p] = << >>]
    /\ UNCHANGED <<stock_call, now, result, next_inv, invoice_note, customers, bills, bill_items, stock,
                   stock_history, txn, pc, call, ret>>

----------------------------------------------------------------------------
(* Reads: the totals preview and the invoice lookup write nothing *)

\* calculate_totals builds a new dict from the cart and assigns nothing
PreviewTotals(p) ==
    /\ pc[p] = "idle"
    /\ UNCHANGED vars

\* get_bill_by_invoice_number runs two SELECTs
LookupInvoice(p) ==
    /\ pc[p] = "idle"
    /\ UNCHANGED vars

----------------------------------------------------------------------------
(* Direct calls of calculate_totals and _split_tax_by_state *)

\* the rates and quantities of the cart lines the calls are tried on
CalcRates == {50, 1000, 13500}
CalcQuantities == 1..2

CalcLines(product_id) ==
    { [product_id |-> product_id, quantity |-> quantity, rate |-> rate,
       amount |-> rate * quantity] : rate \in CalcRates, quantity \in CalcQuantities }

\* the empty cart and carts of one and two lines
CalcCarts ==
    { << >> } \cup { <<a>> : a \in CalcLines(1) }
              \cup { <<a, b>> : a \in CalcLines(1), b \in CalcLines(2) }

\* the values of the state_code setting and of customer_gstin tried
CalcStateCodes == { <<"1", "9">>, <<"1", "9", " ">>, <<"1">>, Empty }
CalcGstins == { Empty, <<"1">>, <<"1", "9">>, <<"1", "9", "X">>, <<"2", "7", "X">> }

NoResult == [op |-> "none", is_gst_bill |-> FALSE, setting |-> Empty,
             customer_gstin |-> Empty, totals |-> calculate_totals(<< >>, FALSE)]

InitCalc ==
    /\ cart \in [Procs -> CalcCarts]
    /\ \A p \in Procs : p # 1 => cart[p] = << >>
    /\ next_inv = [p \in Procs |-> 1]
    /\ invoice_note = NoMarkers
    /\ customers = << >>
    /\ bills = << >>
    /\ bill_items = << >>
    /\ stock = InitialStock
    /\ stock_history = << >>
    /\ txn = NoTxn
    /\ pc = [p \in Procs |-> "idle"]
    /\ call = [p \in Procs |-> NoCall]
    /\ ret = [p \in Procs |-> NoRet]
    /\ result = NoResult
    /\ now = FirstDate
    /\ stock_call = [p \in Procs |-> NoStockCall]

\* a calculation that writes the rounded total back into the first cart line
CalculateTotalsWritingBack(p) ==
    /\ \E is_gst_bill \in BOOLEAN :
         LET totals == calculate_totals(cart[p], is_gst_bill) IN
         /\ result' = [NoResult EXCEPT !.op = "calculate_totals",
                                       !.is_gst_bill = is_gst_bill,
                                       !.totals = totals]
         /\ cart' = IF cart[p] = << >> THEN cart
                    ELSE [cart EXCEPT ![p][1].amount = totals.grand_total * PaisePerUnit]
    /\ UNCHANGED <<stock_call, now, next_inv, invoice_note, customers, bills, bill_items, stock,
                   stock_history, txn, pc, call, ret>>

\* the prices and discounts calculate_selling_price is tried on
PriceMrps == {1, 999, 30000}
PriceDiscounts == {0 - 10, 0, 50, 55, 100, 150}

\* selling_price = gst_calculator.calculate_selling_price(mrp, discount_percent)
CalculateSellingPrice ==
    /\ \E mrp \in PriceMrps, discount_percent \in PriceDiscounts, tie_up \in BOOLEAN :
         result' = [op |-> "calculate_selling_price",
                    mrp |-> mrp,
                    discount_percent |-> discount_percent,
                    selling_price |-> calculate_selling_price(mrp, discount_percent, tie_up)]
    /\ UNCHANGED <<stock_call, now, cart, next_inv, invoice_note, customers, bills, bill_items,
                   stock, stock_history, txn, pc, call, ret>>

\* the dates the fiscal-year label is computed for
FyYears == {1999, 2000, 2005, 2009, 2025, 2099}
FyDates == { Date(year, month) : year \in FyYears, month \in 1..12 }

\* the state of InitCalc on any of these dates
InitFy ==
    /\ cart = [p \in Procs |-> << >>]
    /\ next_inv = [p \in Procs |-> 1]
    /\ invoice_note = NoMarkers
    /\ customers = << >>
    /\ bills = << >>
    /\ bill_items = << >>
    /\ stock = InitialStock
    /\ stock_history = << >>
    /\ txn = NoTxn
    /\ pc = [p \in Procs |-> "idle"]
    /\ call = [p \in Procs |-> NoCall]
    /\ ret = [p \in Procs |-> NoRet]
    /\ result = NoResult
    /\ now \in FyDates
    /\ stock_call = [p \in Procs |-> NoStockCall]

\* the label generate_invoice_number computes from datetime.now()
FiscalYearLabel ==
    /\ result' = [op |-> "fy_str", date |-> now, fy_str |-> fy_str]
    /\ UNCHANGED <<stock_call, now, cart, next_inv, invoice_note, customers, bills, bill_items,
                   stock, stock_history, txn, pc, call, ret>>

\* the notes the settings row may hold: any marker of each kind, or none
Notes == [comment : 0..MaxInv, bracket : 0..MaxInv, hidden : 0..MaxInv]

\* an application started on a settings row with any of these notes
InitNote ==
    /\ cart = [p \in Procs |-> << >>]
    /\ invoice_note \in Notes
    /\ next_inv = [p \in Procs |-> DecodeNote(invoice_note)]
    /\ customers = << >>
    /\ bills = << >>
    /\ bill_items = << >>
    /\ stock = InitialStock
    /\ stock_history = << >>
    /\ txn = NoTxn
    /\ pc = [p \in Procs |-> "idle"]
    /\ call = [p \in Procs |-> NoCall]
    /\ ret = [p \in Procs |-> NoRet]
    /\ result = NoResult
    /\ now = FirstDate
    /\ stock_call = [p \in Procs |-> NoStockCall]

\* company_settings.set_next_invoice_number(value): update() writes the note
\* and the in-memory settings, or returns False with nothing written
SetNextInvoiceNumber(p) ==
    /\ \E value \in 1..(MaxInv + 1), success \in BOOLEAN :
         /\ invoice_note' = IF success THEN EncodeNote(invoice_note, value)
                            ELSE invoice_note
         /\ next_inv' = IF success THEN [next_inv EXCEPT ![p] = value] ELSE next_inv
         /\ result' = [op |-> "set_next_invoice_number", value |-> value,
                       success |-> success]
    /\ UNCHANGED <<stock_call, now, cart, customers, bills, bill_items, stock,
                   stock_history, txn, pc, call, ret>>

\* CompanySettings.load_settings, as run when the application starts
LoadSettings(p) ==
    /\ next_inv' = [next_inv EXCEPT ![p] = DecodeNote(invoice_note)]
    /\ result' = [op |-> "load_settings"]
    /\ UNCHANGED <<stock_call, now, cart, invoice_note, customers, bills, bill_items, stock,
                   stock_history, txn, pc, call, ret>>

\* totals = calculate_totals(is_gst_bill)
CalculateTotals(p) ==
    /\ \E is_gst_bill \in BOOLEAN :
         result' = [NoResult EXCEPT !.op = "calculate_totals",
                                    !.is_gst_bill = is_gst_bill,
                                    !.totals = calculate_totals(cart[p], is_gst_bill)]
    /\ UNCHANGED <<stock_call, now, cart, next_inv, invoice_note, customers, bills, bill_items, stock,
                   stock_history, txn, pc, call, ret>>

\* totals = _split_tax_by_state(calculate_totals(is_gst_bill), customer_gstin)
SplitTaxByState(p) ==
    /\ \E is_gst_bill, tie_up \in BOOLEAN, setting \in CalcStateCodes,
          customer_gstin \in CalcGstins :
         result' = [op |-> "_split_tax_by_state",
                    is_gst_bill |-> is_gst_bill,
                    setting |-> setting,
                    customer_gstin |-> customer_gstin,
                    totals |-> split_tax(setting, calculate_totals(cart[p], is_gst_bill),
                                         customer_gstin, tie_up)]
    /\ UNCHANGED <<stock_call, now, cart, next_inv, invoice_note, customers, bills, bill_items, stock,
                   stock_history, txn, pc, call, ret>>

----------------------------------------------------------------------------
(* Direct calls of the cart functions with any product dict: the caller may
   hand over a product row read earlier, so current_stock is any value *)

GivenStocks == 0..2
GivenQuantities == (0 - 1)..3

AddItemToCart(p) ==
    /\ \E prod \in Products, current_stock \in GivenStocks, quantity \in GivenQuantities :
         LET product == [id |-> prod, current_stock |-> current_stock,
                         selling_price |-> selling_price(prod)]
         IN /\ cart' = [cart EXCEPT ![p] = add_item_to_cart(cart[p], product, quantity)]
            /\ result' = [op |-> "add_item_to_cart", product |-> product,
                          quantity |-> quantity]
    /\ UNCHANGED <<stock_call, now, next_inv, invoice_note, customers, bills, bill_items,
                   stock, stock_history, txn, pc, call, ret>>

RemoveItemFromCart(p) ==
    /\ \E index \in (0 - 1)..Len(cart[p]) :
         /\ cart' = [cart EXCEPT ![p] = remove_item_from_cart(cart[p], index)]
         /\ result' = [op |-> "remove_item_from_cart", index |-> index]
    /\ UNCHANGED <<stock_call, now, next_inv, invoice_note, customers, bills, bill_items,
                   stock, stock_history, txn, pc, call, ret>>

ClearCartCall(p) ==
    /\ cart' = [cart EXCEPT ![p] = << >>]
    /\ result' = [op |-> "clear_cart"]
    /\ UNCHANGED <<stock_call, now, next_inv, invoice_note, customers, bills, bill_items,
                   stock, stock_history, txn, pc, call, ret>>

----------------------------------------------------------------------------
(* Specifications *)

Init ==
    /\ cart = [p \in Procs |-> << >>]
    /\ next_inv = [p \in Procs |-> 1]
    /\ invoice_note = NoMarkers
    /\ customers = << >>
    /\ bills = << >>
    /\ bill_items = << >>
    /\ stock = InitialStock
    /\ stock_history = << >>
    /\ txn = NoTxn
    /\ pc = [p \in Procs |-> "idle"]
    /\ call = [p \in Procs |-> NoCall]
    /\ ret = [p \in Procs |-> NoRet]
    /\ result = NoResult
    /\ now = FirstDate
    /\ stock_call = [p \in Procs |-> NoStockCall]

\* what one application does next
Step(p, A, P, Q, max_bills) ==
    \/ AddItem(p, P, Q)
    \/ RemoveItem(p)
    \/ ClearCart(p)
    \/ PreviewTotals(p)
    \/ LookupInvoice(p)
    \/ \E args \in A : CreateBillRejected(p, args)
    \/ \E args \in A : CreateBillPrepare(p, args, max_bills)
    \/ InsertBill(p)
    \/ InsertItem(p)
    \/ UpdateStock(p)
    \/ InsertHistory(p)
    \/ CommitBill(p)
    \/ StorageFailure(p)

\* one running application
Next == Step(1, Args, Products, Quantities, MaxBills)

Spec == Init /\ [][Next]_vars

\* two running applications on one database file
NextConc == \E p \in Procs : Step(p, ArgsPlain, ProductsConc, QuantitiesConc, MaxBillsConc)

SpecConc == Init /\ [][NextConc]_vars

\* one running application making plain sales of both products
NextSale == Step(1, ArgsPlain, Products, Quantities, MaxBillsSale)

SpecSale == Init /\ [][NextSale]_vars

\* the system clock moves on to a later date
ClockAdvances ==
    /\ \E date \in Dates :
          /\ date.year * 12 + date.month > now.year * 12 + now.month
          /\ now' = date
    /\ UNCHANGED <<stock_call, result, cart, next_inv, invoice_note, customers, bills,
                   bill_items, stock, stock_history, txn, pc, call, ret>>

\* one running application selling across the turn of the fiscal year
NextScope ==
    \/ Step(1, ArgsPlain, ProductsConc, QuantitiesConc, MaxBillsSale)
    \/ ClockAdvances

SpecScope == Init /\ [][NextScope]_vars

\* one running application that sells, renames its buyer and updates the stock
NextShop ==
    \/ Step(1, ArgsTwoNames, ProductsConc, QuantitiesConc, MaxBillsSale)
    \/ UpdateStockRead(1, ProductsConc, StockQuantities)
    \/ UpdateStockWrite(1)

SpecShop == Init /\ [][NextShop]_vars

\* one running application numbering up to MaxBillsSeq invoices of one product
NextSeq == Step(1, ArgsPlain, ProductsConc, QuantitiesConc, MaxBillsSeq)

SpecSeq == Init /\ [][NextSeq]_vars

\* direct calls of the three cart functions
NextCart == AddItemToCart(1) \/ RemoveItemFromCart(1) \/ ClearCartCall(1)

SpecCart == Init /\ [][NextCart]_vars

\* one running application adding to and reducing the stock
NextStock ==
    \/ AddStock(1, Products)
    \/ ReduceStock(1, Products)
    \/ UpdateStockCalled(1)
    \/ UpdateStockWrite(1)

SpecStock == Init /\ [][NextStock]_vars

\* an application that sells and another, on the same database file, that
\* updates the stock
NextLedger ==
    \/ Step(1, ArgsPlain, ProductsConc, QuantitiesConc, MaxBills)
    \/ UpdateStockRead(2, ProductsConc, StockQuantities)
    \/ UpdateStockWrite(2)

SpecLedger == Init /\ [][NextLedger]_vars

\* one running application whose bills are made by the billing page: while
\* generate_bill runs, the window takes no other input
NextPage ==
    \/ /\ ret[1].msg # "created"
       /\ Step(1, ArgsPlain, Products, Quantities, MaxBillsSale)
    \/ GenerateBillDone(1)

SpecPage == Init /\ [][NextPage]_vars

\* the counter written and the settings loaded again
NextNote == SetNextInvoiceNumber(1) \/ LoadSettings(1)

SpecNote == InitNote /\ [][NextNote]_vars

\* the fiscal-year label on a given date
NextFy == FiscalYearLabel

SpecFy == InitFy /\ [][NextFy]_vars

\* direct calls of the calculations on a given cart
NextCalc == CalculateTotals(1) \/ SplitTaxByState(1) \/ CalculateSellingPrice

SpecCalc == InitCalc /\ [][NextCalc]_vars

----------------------------------------------------------------------------
(* Properties *)

DbStages == {"bill", "item", "stock", "history"}

\* the step on which the create_bill call of p returns without a bill: a
\* rejection by the checks, or an exception of db.create_bill
Rejects(p) == pc[p] = "idle" /\ pc'[p] = "idle" /\ ret'[p] # ret[p] /\ ret'[p].msg = "rejected"
DbFails(p) == pc[p] \in DbStages /\ pc'[p] = "idle" /\ ret'[p].msg # "created"
Commits(p) == pc[p] \in DbStages /\ pc'[p] = "idle" /\ ret'[p].msg = "created"

\* C1: when db.create_bill fails at any statement, the committed invoices,
\* invoice lines, stock quantities and stock movements are exactly what they
\* were before the call.
C1_FailedCommitRestoresStore ==
    [][\A p \in Procs :
         DbFails(p) =>
           /\ <<bills', bill_items', stock', stock_history'>> = store
           /\ pc[p] # "bill" => store = call[p].pre_store]_vars

\* with an invoice stored, a failure after the header of the next one and one
\* complete cart line (its line row, stock decrement and movement row) had
\* been written
C1_Witness ==
    /\ Len(bills) = 1
    /\ \E p \in Procs : pc[p] = "idle" /\ ret[p].msg = "db_error" /\ ret[p].written = 1

\* C2: a create_bill call that is rejected or fails leaves the persisted
\* invoice counter as it was before the call.
C2_CounterKeptOnFailure ==
    [][\A p \in Procs :
         /\ Rejects(p) => (next_inv' = next_inv /\ invoice_note' = invoice_note)
         /\ DbFails(p) => /\ next_inv'[p] = call[p].pre_next
                          /\ invoice_note' = call[p].pre_note]_vars

\* C3: no two stored invoices carry the same invoice number, under any
\* interleaving of successful and failed commit attempts of the applications.
C3_InvoiceNumbersUnique ==
    \A i, j \in 1..Len(bills) :
        i # j => bills[i].invoice_number # bills[j].invoice_number

\* two invoices are stored and an attempt with a number already stored was refused
C3_Witness ==
    /\ Len(bills) = 2
    /\ \E p \in Procs : ret[p].msg = "unique"

\* C4: on a successful commit every cart line's product has its stock lowered
\* by the line's quantity, and exactly one stock movement row of the new
\* invoice records that change for the product.
C4_CommitMovesStock ==
    [][\A p \in Procs :
         Commits(p) =>
           \A i \in 1..Len(cart[p]) :
              LET item == cart[p][i]
                  rows == { j \in 1..Len(stock_history') :
                              /\ stock_history'[j].bill_id = Len(bills')
                              /\ stock_history'[j].product_id = item.product_id }
              IN /\ stock'[item.product_id] = stock[item.product_id] - item.quantity
                 /\ Cardinality(rows) = 1
                 /\ \A j \in rows :
                      /\ stock_history'[j].quantity_before = stock[item.product_id]
                      /\ stock_history'[j].quantity_after = stock'[item.product_id]
                      /\ stock_history'[j].quantity_changed = 0 - item.quantity]_vars

\* a second invoice, of two lines, was committed on top of the first one's
\* movement rows
C4_Witness ==
    \E p \in Procs :
        /\ pc[p] = "idle" /\ ret[p].msg = "created"
        /\ Len(bills) = 2
        /\ Len(cart[p]) = 2
        /\ Len(stock_history) >= 3

\* C5: the customer upsert belongs to the atomic commit: when db.create_bill
\* fails the customers table is what it was before the call.
C5_CustomerKeptOnFailure ==
    [][\A p \in Procs : DbFails(p) => customers' = call[p].pre_customers]_vars

\* C6: the running numbers of the stored invoices are c, c+1, c+2, ... in the
\* order of their commits, c = 1 being the counter the scope started with.
C6_NumbersGapless ==
    \A k \in 1..Len(bills) : bills[k].invoice_number[2] = k

Complete(items, args) ==
    /\ items # << >>
    /\ Strip(args.customer_name) # Empty
    /\ args.sales_person_id # 0
    /\ args.is_gst_bill => Strip(args.customer_gstin) # Empty

\* C8: create_bill returns a failure and changes nothing whenever the cart is
\* empty, the customer name or sales person is missing, or the bill is taxed
\* and the customer GSTIN is absent.
C8_IncompleteCallRejected ==
    [][\A p \in Procs :
         /\ (pc[p] = "idle" /\ pc'[p] = "bill") => Complete(cart[p], call'[p].args)
         /\ Rejects(p) => UNCHANGED <<cart, next_inv, invoice_note, customers, bills,
                                      bill_items, stock, stock_history, txn>>]_vars

\* C9: a stored invoice with a positive total tax has either the CGST/SGST
\* pair or IGST non-zero, never both and never neither.
C9_OneSideOfSplit ==
    \A k \in 1..Len(bills) :
        bills[k].total_tax > 0 =>
            ((bills[k].cgst_amount # 0 \/ bills[k].sgst_amount # 0)
                 <=> bills[k].igst_amount = 0)

\* C10: on a stored invoice cgst + sgst + igst equals the total tax rounded to
\* the paisa (with either direction on an exact half).
C10_SplitSumsToTax ==
    \A k \in 1..Len(bills) :
        \E tie_up \in BOOLEAN :
            bills[k].cgst_amount + bills[k].sgst_amount + bills[k].igst_amount
                = Round2(bills[k].total_tax, tie_up)

\* the sum of the amounts of the rows of a table at the indices in S
RECURSIVE AmountsOf(_, _)
AmountsOf(rows, S) ==
    IF S = {} THEN 0
    ELSE LET i == CHOOSE j \in S : TRUE
         IN rows[i].amount + AmountsOf(rows, S \ {i})

LinesOfBill(k) == { i \in 1..Len(bill_items) : bill_items[i].bill_id = k }

\* C11: the amounts of the lines of every stored invoice add up to the
\* invoice's subtotal, and for every non-empty cart calculate_totals returns
\* the sum of the cart lines' amounts as subtotal.
C11_SubtotalIsLineSum ==
    /\ \A k \in 1..Len(bills) :
          AmountsOf(bill_items, LinesOfBill(k)) = bills[k].subtotal
    /\ \A p \in Procs, is_gst_bill \in BOOLEAN :
          cart[p] # << >> =>
              calculate_totals(cart[p], is_gst_bill).subtotal
                  = AmountsOf(cart[p], 1..Len(cart[p]))

\* a second invoice with two lines is stored
C11_Witness ==
    /\ Len(bills) = 2
    /\ Cardinality(LinesOfBill(2)) = 2

\* subtotal + total_tax of a totals dict, in 1/1000 paise
ExactTotal(totals) == totals.subtotal * Milli + totals.total_tax

\* C12: the grand total is subtotal + total_tax rounded to the nearest whole
\* unit, an exact half going up.
C12_GrandTotalHalfUp ==
    result.op = "calculate_totals" =>
        result.totals.grand_total
            = (ExactTotal(result.totals) + 50000) \div 100000

\* C13: round_off + (subtotal + total_tax) equals grand_total, and round_off
\* is less than one unit in absolute value.
C13_RoundOffIdentity ==
    result.op = "calculate_totals" =>
        /\ result.totals.round_off + ExactTotal(result.totals)
               = result.totals.grand_total * 100000
        /\ result.totals.round_off < 100000
        /\ result.totals.round_off > 0 - 100000

\* the totals of a taxed cart whose exact total was rounded up
C13_Witness ==
    /\ result.op = "calculate_totals"
    /\ result.is_gst_bill
    /\ result.totals.round_off > 0

\* the two outcomes of the split
SplitLocal(totals) ==
    /\ totals.igst_amount = 0
    /\ totals.cgst_amount = totals.sgst_amount
    /\ \E tie_up \in BOOLEAN :
          totals.cgst_amount = Round2(totals.total_tax \div 2, tie_up)
SplitRemote(totals) ==
    /\ totals.cgst_amount = 0
    /\ totals.sgst_amount = 0
    /\ \E tie_up \in BOOLEAN : totals.igst_amount = Round2(totals.total_tax, tie_up)

\* the call the split rule is about: a positive tax and a GSTIN given
SplitCase ==
    /\ result.op = "_split_tax_by_state"
    /\ result.totals.total_tax > 0
    /\ result.customer_gstin # Empty

\* customer_gstin[:2]
FirstTwo(gstin) == SubSeq(gstin, 1, IF Len(gstin) >= 2 THEN 2 ELSE Len(gstin))

\* C14 as claimed: the tax is split in two halves exactly when the first two
\* characters of the GSTIN equal the seller's state code, and goes to IGST
\* otherwise, for every state code and GSTIN.
C14_SplitByFirstTwo ==
    SplitCase =>
        IF FirstTwo(result.customer_gstin) = Strip(result.setting)
        THEN SplitLocal(result.totals)
        ELSE SplitRemote(result.totals)

\* C14 as amended: the tax is split in two halves exactly when the seller's
\* state code is not empty, the GSTIN has at least two characters and its
\* first two equal the state code; it goes to IGST otherwise.
C14_SplitByStateOfGstin ==
    SplitCase =>
        IF /\ Strip(result.setting) # Empty
           /\ Len(result.customer_gstin) >= 2
           /\ SubSeq(result.customer_gstin, 1, 2) = Strip(result.setting)
        THEN SplitLocal(result.totals)
        ELSE SplitRemote(result.totals)

\* a GSTIN of one character that is the seller's state code: the tax went to IGST
C14_Witness ==
    /\ SplitCase
    /\ result.customer_gstin = <<"1">>
    /\ result.setting = <<"1">>
    /\ result.totals.igst_amount > 0

\* the step on which create_bill of p has got its invoice number
Numbered(p) == pc[p] = "idle" /\ pc'[p] = "bill"

\* an invoice with this running number is stored
Taken(running) ==
    \E k \in 1..Len(bills) : bills[k].invoice_number = <<invoice_prefix, running, fy_str>>

\* the candidates generate_invoice_number looks up from counter value c
Candidates(c) == c..(c + RetryLimit - 1)

C16_ExhaustionIsFatal ==
    [][\A p \in Procs :
         Numbered(p) => \E n \in Candidates(next_inv[p]) : ~Taken(n)]_vars

\* C17: when two applications have read the same counter value and built the
\* same number, the second insert is caught as a duplicate and the attempt
\* goes on with the next number: it does not end as a failure of the
\* uniqueness check.
C17_DuplicateIsRetried ==
    [][\A p \in Procs : DbFails(p) => ret'[p].msg # "unique"]_vars

\* an invoice of the prefix and fiscal year now in force is stored
ScopeUsed ==
    \E k \in 1..Len(bills) :
        /\ bills[k].invoice_number[1] = invoice_prefix
        /\ bills[k].invoice_number[3] = fy_str

\* C18: running numbers are counted per prefix and fiscal year: when every
\* number handed out so far has been stored and no stored invoice is of the
\* fiscal year now in force, the next invoice gets running number 1.
C18_NewScopeStartsAtOne ==
    [][\A p \in Procs :
         (Numbered(p) /\ next_inv[p] = Len(bills) + 1 /\ ~ScopeUsed) =>
            call'[p].bill.invoice_number[2] = 1]_vars

\* C19: a stored invoice never changes: whatever happens next (another
\* commit, a failed commit, the upsert of its buyer under another name, a
\* stock update), its header and its lines stay as they were stored and no
\* line is added to it.
C19_StoredInvoiceImmutable ==
    [][/\ Len(bills') >= Len(bills)
       /\ Len(bill_items') >= Len(bill_items)
       /\ \A k \in 1..Len(bills) : bills'[k] = bills[k]
       /\ \A i \in 1..Len(bill_items) : bill_items'[i] = bill_items[i]
       /\ \A i \in (Len(bill_items) + 1)..Len(bill_items') :
              bill_items'[i].bill_id > Len(bills)]_vars

\* the first invoice is stored for buyer A, a second commit has renamed the
\* buyer of that phone to B, and the stock has been updated by hand
C19_Witness ==
    /\ Len(bills) = 2
    /\ bills[1].customer_name = <<"A">>
    /\ Len(customers) = 1
    /\ customers[1].name = <<"B">>
    /\ Moves # {}

\* C20 as stated: every stock_history row names a stored invoice.
C20_EveryMoveHasInvoice ==
    \A i \in 1..Len(stock_history) : stock_history[i].bill_id \in 1..Len(bills)

\* the stock_history rows a step has added
NewMoves == (Len(stock_history) + 1)..Len(stock_history')

\* C20, amended: every stock_history row written by an invoice commit names
\* the invoice that commit stores; the only other rows are those appended by
\* InventoryManager.update_stock, which name no invoice.
C20_CommitRowsHaveInvoice ==
    [][/\ Len(stock_history') >= Len(stock_history)
       /\ \A i \in 1..Len(stock_history) : stock_history'[i] = stock_history[i]
       /\ IF \E p \in Procs : Commits(p)
          THEN /\ Len(bills') = Len(bills) + 1
               /\ NewMoves # {}
               /\ \A i \in NewMoves : stock_history'[i].bill_id = Len(bills')
          ELSE \A i \in NewMoves : stock_history'[i].bill_id = 0]_vars

\* the movement row of a sale names its invoice and a row written by a stock
\* update names none
C20_Witness ==
    /\ \E i \in 1..Len(stock_history) : stock_history[i].bill_id = 1
    /\ Moves # {}

\* the quantity the cart holds of a product, 0 when it has no line
InCart(items, product_id) ==
    IF \E i \in 1..Len(items) : items[i].product_id = product_id
    THEN items[CHOOSE i \in 1..Len(items) : items[i].product_id = product_id].quantity
    ELSE 0

\* the lines of the cart that are not of this product, in order
RECURSIVE OtherLines(_, _)
OtherLines(items, product_id) ==
    IF items = << >> THEN << >>
    ELSE IF Head(items).product_id = product_id THEN OtherLines(Tail(items), product_id)
    ELSE <<Head(items)>> \o OtherLines(Tail(items), product_id)

\* C21: after any calls of add_item_to_cart, remove_item_from_cart and
\* clear_cart every cart line has a quantity above 0 and no product has two
\* lines; an add that is accepted leaves the product's line with a quantity
\* of at most the stock given in that call and the other lines as they were;
\* an add with a quantity of 0 or less, a quantity above the given stock, or a
\* merged quantity above the given stock leaves the cart unchanged.
C21_CartInvariant ==
    [][\A p \in Procs :
         /\ \A i \in 1..Len(cart'[p]) : cart'[p][i].quantity > 0
         /\ \A i, j \in 1..Len(cart'[p]) :
               cart'[p][i].product_id = cart'[p][j].product_id => i = j
         /\ (result'.op = "add_item_to_cart" /\ p = 1) =>
               LET product == result'.product
                   quantity == result'.quantity
                   held == InCart(cart[p], product.id)
               IN IF \/ quantity <= 0
                     \/ quantity > product.current_stock
                     \/ held + quantity > product.current_stock
                  THEN cart'[p] = cart[p]
                  ELSE /\ InCart(cart'[p], product.id) = held + quantity
                       /\ InCart(cart'[p], product.id) <= product.current_stock
                       /\ OtherLines(cart'[p], product.id)
                              = OtherLines(cart[p], product.id)]_vars

\* an add was refused because the merged quantity would pass the given stock
C21_Witness ==
    /\ result.op = "add_item_to_cart"
    /\ result.quantity = 1
    /\ result.product.current_stock = 2
    /\ InCart(cart[1], result.product.id) = 2
    /\ Len(cart[1]) = 2

\* C22: a call of calculate_totals leaves the cart, the counter and its
\* marker, the customers and all stored rows as they were, and when it
\* follows a call with the same flag it returns what that call returned.
C22_TotalsPreviewIsPure ==
    [][result'.op = "calculate_totals" =>
          /\ UNCHANGED <<cart, next_inv, invoice_note, customers, store, stock_call>>
          /\ (result.op = "calculate_totals" /\ result.is_gst_bill = result'.is_gst_bill)
                => result'.totals = result.totals]_vars

\* the totals of a taxed cart of two lines have been calculated
C22_Witness ==
    /\ result.op = "calculate_totals"
    /\ result.is_gst_bill
    /\ Len(cart[1]) = 2
    /\ result.totals.grand_total > 0

\* C23: no step of create_bill changes the cart: from the checks to the
\* return, whether the call is rejected, fails in the database or stores the
\* invoice, the cart keeps its lines, their order, quantities and amounts.
C23_CreateBillKeepsCart ==
    [][\A p \in Procs :
         (pc[p] \in DbStages \/ pc'[p] \in DbStages \/ ret'[p] # ret[p])
            => cart'[p] = cart[p]]_vars

\* create_bill has stored an invoice and the cart still holds its two lines
C23_Witness ==
    /\ ret[1].msg = "created"
    /\ Len(bills) = 1
    /\ Len(cart[1]) = 2
    /\ Cardinality(LinesOfBill(1)) = 2

\* the discount brought into 0..100
Clamp(discount_percent) ==
    IF discount_percent < 0 THEN 0
    ELSE IF discount_percent > 100 THEN 100
    ELSE discount_percent

\* C24: calculate_selling_price prices a discount below 0 as 0% and a
\* discount above 100 as 100%: the rate is mrp * (1 - clamp(discount)/100)
\* rounded to the paisa (either neighbour when it lies exactly between two).
C24_DiscountClamped ==
    result.op = "calculate_selling_price" =>
        LET exact == result.mrp * (100 - Clamp(result.discount_percent))
            diff == result.selling_price * 100 - exact
        IN diff <= 50 /\ 0 - diff <= 50

\* the two decimal digits of a number below 100
TwoDigits(n) ==
    LET digits == <<"0", "1", "2", "3", "4", "5", "6", "7", "8", "9">>
    IN <<digits[(n \div 10) + 1], digits[(n % 10) + 1]>>

\* C25: the fiscal year of a date starts in April (months 4..12 of year N
\* belong to N/N+1, months 1..3 to N-1/N) and its label is "YY-YY", two
\* digits for each of the two years.
C25_FiscalYearLabel ==
    result.op = "fy_str" =>
        LET first == IF result.date.month \in 4..12
                     THEN result.date.year ELSE result.date.year - 1
        IN result.fy_str = TwoDigits(first % 100) \o <<"-">> \o TwoDigits((first + 1) % 100)

\* C26: the stock of every product is 0 or more in every state, whatever the
\* order of cart additions, commits and stock updates.
C26_StockNeverNegative ==
    \A prod \in Products : stock[prod] >= 0

\* C27: when set_next_invoice_number(n) has succeeded and the settings are
\* then loaded again, next_invoice_number is n, whatever the note held.
C27_CounterSurvivesReload ==
    [][(/\ result.op = "set_next_invoice_number"
        /\ result.success
        /\ result'.op = "load_settings")
          => next_inv'[1] = result.value]_vars

\* C28: when generate_bill ends after a successful create_bill, the cart is
\* empty, whether or not the PDF could be written, so that the next commit
\* cannot be made from the same cart.
C28_PageClearsCart ==
    [][\A p \in Procs :
         (ret[p].msg = "created" /\ ret'[p].msg # "created") => cart'[p] = << >>]_vars

\* the stock_history rows of a product, oldest first
RowsOf(prod) == { i \in 1..Len(stock_history) : stock_history[i].product_id = prod }

\* the stock a product had before row i was written: what the row before it
\* left, or the initial stock
StockBefore(prod, i) ==
    IF \E j \in RowsOf(prod) : j < i
    THEN LET j == CHOOSE k \in RowsOf(prod) : k < i /\ \A l \in RowsOf(prod) : l < i => l <= k
         IN stock_history[j].quantity_after
    ELSE InitialStock[prod]

\* C29: for every product with stock_history rows the quantity_after of the
\* latest row is the product's stock, and every row's quantity_before is the
\* stock the product had just before the change.
C29_LedgerMatchesStock ==
    \A prod \in Products :
        /\ \A i \in RowsOf(prod) :
              stock_history[i].quantity_before = StockBefore(prod, i)
        /\ RowsOf(prod) # {} =>
              stock_history[CHOOSE i \in RowsOf(prod) : \A j \in RowsOf(prod) : j <= i]
                  .quantity_after = stock[prod]

\* the step that appends the stock_history row of the call recorded in result
Restocked == Len(stock_history') = Len(stock_history) + 1

\* C30: add_stock(product, q) raises the stock by exactly q and writes one
\* row with quantity_after - quantity_before = q; reduce_stock(product, q)
\* lowers it by exactly q when q is at most the stock, and otherwise fails
\* and leaves the stock and the rows as they were.
C30_AddAndReduceExact ==
    [][/\ (Restocked /\ result.op = "add_stock") =>
             LET row == stock_history'[Len(stock_history')] IN
             /\ stock'[result.product_id] = result.current_stock + result.quantity
             /\ row.quantity_after - row.quantity_before = result.quantity
       /\ (Restocked /\ result.op = "reduce_stock") =>
             stock'[result.product_id] = result.current_stock - result.quantity
       /\ (result'.op = "reduce_stock" /\ ~result'.success) =>
             /\ result'.quantity > result'.current_stock
             /\ UNCHANGED <<stock, stock_history>>]_vars

============================================================================
